---- MODULE Spec2Model ----
(***************************************************************************)
(* The document repository of grok-list (src/src/repo.rs) over a MongoDB   *)
(* database, with the data model of list.rs, store.rs and user.rs.         *)
(*                                                                         *)
(* Every store call (insert_one, find_one, replace_one, delete_one, find)  *)
(* is one atomic step; a repository operation made of several store calls  *)
(* is several steps of one request, and the steps of concurrently running  *)
(* requests interleave freely (the async fns of Repo share one Database    *)
(* handle and take no lock).                                               *)
(***************************************************************************)
EXTENDS Integers, Sequences, FiniteSets, TLC

(***************************************************************************)
(* Bounds of the model.                                                    *)
(***************************************************************************)
\* Calls made in one run whose callers work with lists, with stores, with
\* users.
MaxListCalls == 3
MaxStoreCalls == 4
MaxUserCalls == 3
\* Requests in flight at the same time.
NumRequests == 2

Requests == 1..NumRequests
\* The ObjectIds that callers make with ObjectId::new() before they call (the
\* owning users of the lists); the driver generates the others on insert, at
\* most one a call.
CallerIds == {1, 2}
ObjectIds == 1..(Cardinality(CallerIds) + MaxListCalls + MaxStoreCalls + MaxUserCalls)

(***************************************************************************)
(* Option<T>: None is the empty tuple, Some(v) the one-element tuple.      *)
(***************************************************************************)
None == <<>>
Some(v) == <<v>>
IsSome(o) == o # None
Unwrap(o) == o[1]

(***************************************************************************)
(* Strings that are case-converted are sequences of character codes; the   *)
(* other strings (names, e-mails, amounts) are opaque.                     *)
(***************************************************************************)
CharLower(c) == IF c \in 65..90 THEN c + 32 ELSE c
\* str::to_lowercase, on the ASCII range
to_lowercase(s) == [i \in 1..Len(s) |-> CharLower(s[i])]

\* "Meat", "meat": category inputs that differ in casing only
RawCategories == { <<77, 101, 97, 116>>, <<109, 101, 97, 116>> }
\* The categories given to a store before it is inserted.
CategoryLists == { <<>> } \cup { <<c>> : c \in RawCategories }

(***************************************************************************)
(* list.rs                                                                 *)
(***************************************************************************)
ListItemBuilder_new(name) == [name |-> name, category |-> None, amount |-> None]
ListItemBuilder_category(b, category) ==
    [b EXCEPT !.category = Some(to_lowercase(category))]
ListItemBuilder_amount(b, amount) == [b EXCEPT !.amount = Some(amount)]
ListItemBuilder_build(b) ==
    [name |-> b.name, category |-> b.category, amount |-> b.amount]

\* What callers give the item builder: a name, and optionally a category and
\* an amount.
ItemInputs ==
    { [name |-> "salmon", category |-> Some(<<77, 101, 97, 116>>), amount |-> Some("2lb")],
      [name |-> "salmon", category |-> Some(<<109, 101, 97, 116>>), amount |-> Some("2lb")],
      [name |-> "brocc", category |-> None, amount |-> None] }

\* ListItem::builder(name) [.category(c)] [.amount(a)] .build()
BuildItem(inp) ==
    LET b0 == ListItemBuilder_new(inp.name)
        b1 == IF IsSome(inp.category)
              THEN ListItemBuilder_category(b0, Unwrap(inp.category)) ELSE b0
        b2 == IF IsSome(inp.amount)
              THEN ListItemBuilder_amount(b1, Unwrap(inp.amount)) ELSE b1
    IN  ListItemBuilder_build(b2)

ListItems == { BuildItem(inp) : inp \in ItemInputs }

\* The items given to the list builder before the list is inserted: none, or
\* the salmon of the tests followed by an item without category and amount.
InitialItems ==
    { <<>>,
      << BuildItem([name |-> "salmon", category |-> Some(<<77, 101, 97, 116>>),
                    amount |-> Some("2lb")]),
         BuildItem([name |-> "brocc", category |-> None, amount |-> None]) >> }

ListBuilder_new(name, user_id) ==
    [_id |-> None, name |-> name, user_id |-> user_id, items |-> <<>>]
ListBuilder_add_item(b, item) == [b EXCEPT !.items = Append(@, item)]
ListBuilder_build(b) ==
    [_id |-> b._id, name |-> b.name, user_id |-> b.user_id, items |-> b.items]

\* List::add_item putting the item first
List_add_item_front(list, item) == [list EXCEPT !.items = <<item>> \o @]

\* List::add_item
List_add_item(list, item) == [list EXCEPT !.items = Append(@, item)]

RECURSIVE ListBuilder_add_items(_, _)
ListBuilder_add_items(b, items) ==
    IF items = <<>> THEN b
    ELSE ListBuilder_add_items(ListBuilder_add_item(b, Head(items)), Tail(items))

ListNames == { "test_list" }

(***************************************************************************)
(* store.rs                                                                *)
(***************************************************************************)
Store_new(name) == [_id |-> None, name |-> name, categories |-> <<>>]
\* Store::add_category without the to_lowercase
Store_add_category_raw(store, category) ==
    [store EXCEPT !.categories = Append(@, category)]

Store_add_category(store, category) ==
    [store EXCEPT !.categories = Append(@, to_lowercase(category))]

RECURSIVE Store_add_categories(_, _)
Store_add_categories(store, cats) ==
    IF cats = <<>> THEN store
    ELSE Store_add_categories(Store_add_category(store, Head(cats)), Tail(cats))

StoreNames == { "test_store" }

(***************************************************************************)
(* user.rs                                                                 *)
(***************************************************************************)
User_new(name, email) == [_id |-> None, name |-> name, email |-> email]

\* name and email are Strings: any string is accepted, the empty one too
UserNames == { "", "foo" }
UserEmails == { "foo@bar.com", "test@email.com" }

(***************************************************************************)
(* repo.rs: the collections and their names                                *)
(***************************************************************************)
Lists == "Lists"
Stores == "Stores"
Users == "Users"
Collections == { Lists, Stores, Users }

\* a Display that writes "lists" for Stores and "stores" for Lists
CollectionName_swapped(c) ==
    CASE c = Lists -> "stores"
      [] c = Stores -> "lists"
      [] c = Users -> "users"

\* Display for Collections: the physical collection name
CollectionName(c) ==
    CASE c = Lists -> "lists"
      [] c = Stores -> "stores"
      [] c = Users -> "users"

CollectionNames == { CollectionName(c) : c \in Collections }

(***************************************************************************)
(* BSON documents are functions from wire field names to values.  serde    *)
(* writes _id only when it is present, and the list's user_id under the    *)
(* wire name userId; an absent Option<String> is written as null.          *)
(***************************************************************************)
BsonNull == [t |-> "null", v |-> <<>>]
BsonString(s) == [t |-> "string", v |-> s]

OptionToBson(o) == IF IsSome(o) THEN BsonString(Unwrap(o)) ELSE BsonNull
OptionFromBson(b) == IF b.t = "null" THEN None ELSE Some(b.v)

ItemToBson(item) ==
    [name |-> item.name,
     category |-> OptionToBson(item.category),
     amount |-> OptionToBson(item.amount)]
ItemFromBson(d) ==
    [name |-> d.name,
     category |-> OptionFromBson(d.category),
     amount |-> OptionFromBson(d.amount)]

WithId(v, fields) ==
    IF IsSome(v._id) THEN ("_id" :> Unwrap(v._id)) @@ fields ELSE fields

\* bson::to_document, by entity kind
to_document(c, v) ==
    CASE c = Lists ->
           WithId(v, [name |-> v.name,
                      userId |-> v.user_id,
                      items |-> [i \in 1..Len(v.items) |-> ItemToBson(v.items[i])]])
      [] c = Stores ->
           WithId(v, [name |-> v.name, categories |-> v.categories])
      [] c = Users ->
           WithId(v, [name |-> v.name, email |-> v.email])

\* The fields serde requires when it reads an entity back (_id is optional).
RequiredFields(c) ==
    CASE c = Lists -> { "name", "userId", "items" }
      [] c = Stores -> { "name", "categories" }
      [] c = Users -> { "name", "email" }

CanDeserialize(c, d) == RequiredFields(c) \subseteq DOMAIN d

IdOf(d) == IF "_id" \in DOMAIN d THEN Some(d["_id"]) ELSE None

\* from_document that skips _id when it reads, as it does when it writes
from_document_without_id(c, d) ==
    CASE c = Lists ->
           [_id |-> None, name |-> d.name, user_id |-> d.userId,
            items |-> [i \in 1..Len(d.items) |-> ItemFromBson(d.items[i])]]
      [] c = Stores ->
           [_id |-> None, name |-> d.name, categories |-> d.categories]
      [] c = Users ->
           [_id |-> None, name |-> d.name, email |-> d.email]

\* bson::from_document, by entity kind (defined when CanDeserialize)
from_document(c, d) ==
    CASE c = Lists ->
           [_id |-> IdOf(d), name |-> d.name, user_id |-> d.userId,
            items |-> [i \in 1..Len(d.items) |-> ItemFromBson(d.items[i])]]
      [] c = Stores ->
           [_id |-> IdOf(d), name |-> d.name, categories |-> d.categories]
      [] c = Users ->
           [_id |-> IdOf(d), name |-> d.name, email |-> d.email]

(***************************************************************************)
(* The store: MongoDB collections.  A collection is the sequence of its    *)
(* documents in natural (insertion) order; _id is unique in a collection.  *)
(***************************************************************************)
RECURSIVE IndexWhere(_, _, _, _)
\* the index of the first document of coll at or after i whose field equals
\* value, 0 when there is none
IndexWhere(coll, field, value, i) ==
    IF i > Len(coll) THEN 0
    ELSE IF field \in DOMAIN coll[i] /\ coll[i][field] = value THEN i
    ELSE IndexWhere(coll, field, value, i + 1)

\* find_one whose filter on name is a filter on email
find_one_by_email(coll, field, value) ==
    LET i == IndexWhere(coll, IF field = "name" THEN "email" ELSE field, value, 1)
    IN  IF i = 0 THEN None ELSE Some(coll[i])

\* find_one with an empty filter: the first document of the collection
find_one_unfiltered(coll, field, value) ==
    IF coll = <<>> THEN None ELSE Some(coll[1])

\* Collection::find_one(doc! { field: value })
find_one(coll, field, value) ==
    LET i == IndexWhere(coll, field, value, 1)
    IN  IF i = 0 THEN None ELSE Some(coll[i])

\* find that stops at the first match
find_first(coll, field, value) ==
    LET i == IndexWhere(coll, field, value, 1)
    IN  IF i = 0 THEN <<>> ELSE << coll[i] >>

\* Collection::find(doc! { field: value }): the matching documents in
\* natural order
find(coll, field, value) ==
    SelectSeq(coll, LAMBDA d : field \in DOMAIN d /\ d[field] = value)

\* insert_one applied twice (a write sent again)
insert_one_twice(coll, d) == Append(Append(coll, d), d)

\* Collection::insert_one of a document that has its _id
insert_one(coll, d) == Append(coll, d)

\* replace_one with upsert(true): an unmatched replace inserts the document
replace_one_upsert(coll, id, d) ==
    LET i == IndexWhere(coll, "_id", id, 1)
    IN  IF i = 0 THEN Append(coll, ("_id" :> id) @@ d)
        ELSE [coll EXCEPT ![i] = ("_id" :> id) @@ d]

\* replace_one that keeps the items the matched document has and adds the new
\* document's last item to them (an update that pushes, not a replacement)
replace_one_push(coll, id, d) ==
    LET i == IndexWhere(coll, "_id", id, 1)
    IN  IF i = 0 \/ "items" \notin DOMAIN d \/ d.items = <<>> THEN coll
        ELSE [coll EXCEPT ![i] =
                ("_id" :> id) @@
                [d EXCEPT !.items = Append(coll[i].items, d.items[Len(d.items)])]]

\* replace_one whose replacement document holds the items alone
replace_one_items_only(coll, id, d) ==
    LET i == IndexWhere(coll, "_id", id, 1)
    IN  IF i = 0 THEN coll
        ELSE [coll EXCEPT ![i] = ("_id" :> id) @@ [items |-> d.items]]

\* replace_one that writes the document over the first document of the
\* collection, whichever document the filter matched
replace_one_first(coll, id, d) ==
    LET i == IndexWhere(coll, "_id", id, 1)
    IN  IF i = 0 THEN coll
        ELSE [coll EXCEPT ![1] = ("_id" :> id) @@ d]

\* Collection::replace_one(doc! { "_id": id }, d): no upsert; the matched
\* document keeps its _id and its place, everything else is replaced
replace_one(coll, id, d) ==
    LET i == IndexWhere(coll, "_id", id, 1)
    IN  IF i = 0 THEN coll
        ELSE [coll EXCEPT ![i] = ("_id" :> id) @@ d]

\* delete_one whose filter matches nothing
delete_one_unmatched(coll, id) == coll

\* a delete that, when the filter matches, removes every document of the
\* collection
delete_one_clears(coll, id) ==
    IF IndexWhere(coll, "_id", id, 1) = 0 THEN coll ELSE <<>>

\* Collection::delete_one(doc! { "_id": id })
delete_one(coll, id) ==
    LET i == IndexWhere(coll, "_id", id, 1)
    IN  IF i = 0 THEN coll
        ELSE [k \in 1..(Len(coll) - 1) |-> IF k < i THEN coll[k] ELSE coll[k + 1]]

Present(coll, id) == IndexWhere(coll, "_id", id, 1) # 0

(***************************************************************************)
(* Results: Result<T, RepoError>                                           *)
(***************************************************************************)
Ok(v) == [tag |-> "Ok", val |-> v]
Err(e) == [tag |-> "Err", val |-> e]
NotObjectId == [kind |-> "NotObjectId"]
MongoError == [kind |-> "MongoError"]
BsonSer == [kind |-> "BsonSer"]
BsonDe == [kind |-> "BsonDe"]
\* the absence of the list reported as a store error
ObjectNotFound_as_MongoError(id, c) == MongoError
ObjectNotFound(id, c) == [kind |-> "ObjectNotFound", id |-> id, coll |-> c]

\* absence turned into an error
Decode_absent_is_error(c, found) ==
    IF found = None THEN Err(MongoError)
    ELSE IF CanDeserialize(c, Unwrap(found))
         THEN Ok(Some(from_document(c, Unwrap(found))))
         ELSE Err(BsonDe)

\* find_one(..).await?.map(bson::from_document).transpose()?
Decode(c, found) ==
    IF found = None THEN Ok(None)
    ELSE IF CanDeserialize(c, Unwrap(found))
         THEN Ok(Some(from_document(c, Unwrap(found))))
         ELSE Err(BsonDe)

\* get_document_by_id that reports a missing document as ObjectNotFound
get_document_by_id_or_not_found(coll, id, c) ==
    IF find_one(coll, "_id", id) = None THEN Err(ObjectNotFound(id, c))
    ELSE Decode(c, find_one(coll, "_id", id))

\* Repo::get_document_by_id, when the store call succeeds
get_document_by_id(coll, id, c) == Decode(c, find_one(coll, "_id", id))

(***************************************************************************)
(* State                                                                   *)
(***************************************************************************)
VARIABLES
    db,        \* the database: collection -> its documents
    nextId,    \* the next ObjectId that ObjectId::new() generates
    known,     \* the ObjectIds that callers hold
    ncalls,    \* the calls made and the later store calls failed so far
    req,       \* each request in flight: its operation, position and locals
               \*   (snap, trace and prev are history: the list as read,
               \*   the store calls issued and how each ended, and what the
               \*   insert of this document returned just before)
    last,      \* the call that returned in the last step, with what it
               \*   returned (NoCall when the last step returned nothing)
    workload,  \* the kind of entity the callers of this run work with
    intf,      \* history: how other requests' writes fell on a request in flight
    deleted,   \* history: per collection, the identifiers ever deleted
    gone,      \* history: per collection, the identifiers deleted and not
               \*          inserted since
    expect,    \* history: per list, its items at insert, then each item whose
               \*          replace_one matched, in that order
    raced,     \* history: the lists written between the read and the replace of
               \*          an add_list_item
    acked      \* history: per list, the items whose add_list_item returned a list

vars == <<db, nextId, known, ncalls, req, last, workload, intf, deleted, gone, expect,
          raced, acked>>

Idle ==
    [op |-> "none", pc |-> "ready", coll |-> "", id |-> None, arg |-> None,
     snap |-> None, list |-> None, trace |-> <<>>, prev |-> None]

NoCall ==
    [op |-> "none", coll |-> "", id |-> None, arg |-> None,
     snap |-> None, list |-> None, trace |-> <<>>, prev |-> None,
     res |-> Ok(None), intf |-> {}]

Operations ==
    { "add_list", "get_list_by_id", "delete_list_by_id",
      "add_store", "get_store_by_id", "delete_store_by_id",
      "add_user", "get_user_by_name", "get_lists_by_user", "add_list_item" }

\* the collection each facade operation names
CollectionOf(op) ==
    CASE op \in {"add_list", "get_list_by_id", "delete_list_by_id",
                 "get_lists_by_user", "add_list_item"} -> Lists
      [] op \in {"add_store", "get_store_by_id", "delete_store_by_id"} -> Stores
      [] OTHER -> Users

\* the calls of one run, a store failure after the first store call counted
\* as one more
MaxCalls(c) ==
    CASE c = Lists -> MaxListCalls
      [] c = Stores -> MaxStoreCalls
      [] c = Users -> MaxUserCalls

(***************************************************************************)
(* Repo::new connects to the database grok_list, which outlives the        *)
(* process: the collections that the calls of a run do not work on hold    *)
(* what earlier runs left there, here one document each.  Its _id is the   *)
(* ObjectId that the callers of this run pass as an identifier of their    *)
(* own (an ObjectId is unique within one collection only).                 *)
(***************************************************************************)
Existing(c) ==
    LET id == Some(1)
    IN  CASE c = Lists ->
               to_document(Lists,
                   [ListBuilder_build(ListBuilder_new("test_list", 1))
                       EXCEPT !._id = id])
          [] c = Stores ->
               to_document(Stores, [Store_new("test_store") EXCEPT !._id = id])
          [] c = Users ->
               to_document(Users,
                   [User_new("foo", "foo@bar.com") EXCEPT !._id = id])

Init ==
    /\ workload \in Collections
    /\ db = [n \in CollectionNames |->
               IF n = CollectionName(workload) THEN <<>>
               ELSE << Existing(CHOOSE c \in Collections : CollectionName(c) = n) >>]
    /\ nextId = Cardinality(CallerIds) + 1
    /\ known = CallerIds
    /\ ncalls = 0
    /\ req = [p \in Requests |-> Idle]
    /\ last = NoCall
    /\ intf = [p \in Requests |-> {}]
    /\ deleted = [c \in Collections |-> {}]
    /\ gone = [c \in Collections |-> {}]
    /\ expect = [i \in ObjectIds |-> <<>>]
    /\ raced = {}
    /\ acked = [i \in ObjectIds |-> {}]

\* The database as earlier runs left it, the collection the calls work on
\* included: every collection holds its document.
InitPopulated ==
    /\ workload \in Collections
    /\ db = [n \in CollectionNames |->
               << Existing(CHOOSE c \in Collections : CollectionName(c) = n) >>]
    /\ nextId = Cardinality(CallerIds) + 1
    /\ known = CallerIds
    /\ ncalls = 0
    /\ req = [p \in Requests |-> Idle]
    /\ last = NoCall
    /\ intf = [p \in Requests |-> {}]
    /\ deleted = [c \in Collections |-> {}]
    /\ gone = [c \in Collections |-> {}]
    /\ expect = [i \in ObjectIds |-> <<>>]
    /\ raced = {}
    /\ acked = [i \in ObjectIds |-> {}]

\* Request p may start a call: it is the first request not in flight.
Ready(p) ==
    /\ req[p].pc = "ready"
    /\ \A q \in 1..(p - 1) : req[q].pc # "ready"
    /\ ncalls < MaxCalls(workload)

\* A request that starts operation op.
Begin(op) == [Idle EXCEPT !.op = op, !.coll = CollectionOf(op)]

\* The call r of request p returns res.
Return(p, r, res) ==
    [op |-> r.op, coll |-> r.coll, id |-> r.id, arg |-> r.arg,
     snap |-> r.snap, list |-> r.list, trace |-> r.trace,
     prev |-> r.prev, res |-> res, intf |-> intf[p]]

\* How a write to (c, id) by request p falls on the other requests at work on
\* that document: after their read (stale) or before their re-fetch (late).
Interfere(p, c, id) ==
    [q \in Requests |->
        IF q # p /\ req[q].coll = c /\ req[q].id = Some(id) /\ req[q].pc # "ready"
        THEN intf[q] \cup { IF req[q].pc = "replace" THEN "stale" ELSE "late" }
        ELSE intf[q]]

\* The lists whose add_list_item, by a request other than p, has read and not
\* yet replaced.
Pending(p) ==
    { Unwrap(req[q].id) : q \in { r \in Requests : r # p /\ req[r].pc = "replace" } }

(***************************************************************************)
(* Callers.  Unit tests and handlers make identifiers with ObjectId::new() *)
(* (the owning user of a list), and hold the identifiers that results gave *)
(* them.                                                                   *)
(***************************************************************************)
\* The values callers build: with the builders, and, the fields of the
\* entities being public, with the identifier of a value fetched earlier.
\* The identifiers callers pass to the by-id operations: those that results
\* gave them, and one that they made themselves (the caller-made identifiers
\* are interchangeable there: none of them is ever a document's).
ProbeIds == (known \ CallerIds) \cup {1}

\* The users that callers name as owners: the caller-made identifiers are
\* interchangeable until a list has been stored, so the first list is user 1's.
OwnerIds ==
    { u \in CallerIds : u = 1 \/ db[CollectionName(Lists)] # <<>> \/ deleted[Lists] # {} }

IdsIn(coll) == { coll[i]["_id"] : i \in 1..Len(coll) }
IdChoices(c) ==
    {None} \cup { Some(i) : i \in known \cap (IdsIn(db[CollectionName(c)]) \cup deleted[c]) }

ListValues ==
    { [ListBuilder_build(
          ListBuilder_add_items(ListBuilder_new(name, user_id), items))
         EXCEPT !._id = id] :
        name \in ListNames, user_id \in OwnerIds,
        items \in InitialItems, id \in IdChoices(Lists) }

StoreValues ==
    { [Store_add_categories(Store_new(name), cats) EXCEPT !._id = id] :
        name \in StoreNames, cats \in CategoryLists,
        id \in IdChoices(Stores) }

UserValues ==
    { [User_new(name, email) EXCEPT !._id = id] :
        name \in UserNames, email \in UserEmails, id \in IdChoices(Users) }

(***************************************************************************)
(* History of the lists collection                                         *)
(***************************************************************************)
\* after request p wrote list id: inserted it with items, or deleted it
\* (items = <<>>)
Rewritten(p, id, items, present) ==
    LET r == present /\ id \in Pending(p)
    IN  /\ raced' = IF r THEN raced \cup {id} ELSE raced \ {id}
        /\ expect' = [expect EXCEPT ![id] = IF r THEN <<>> ELSE items]
        /\ acked' = [acked EXCEPT ![id] = {}]

\* after the replace_one of request p matched list id
Replaced(p, id, item) ==
    LET r == id \in raced \/ id \in Pending(p)
    IN  /\ raced' = IF r THEN raced \cup {id} ELSE raced
        /\ expect' = [expect EXCEPT ![id] = IF r THEN <<>> ELSE Append(@, item)]
        /\ UNCHANGED acked

(***************************************************************************)
(* Repo::add_document: insert_one, then the re-fetch by the inserted id.   *)
(***************************************************************************)
\* insert_one(to_document(v)): the driver gives a document without _id a new
\* ObjectId; an _id already in the collection is a duplicate-key error.
AddDocumentInsert(p, op, c, v) ==
    /\ Ready(p)
    /\ workload = c
    /\ LET d == to_document(c, v)
           fresh == "_id" \notin DOMAIN d
           id == IF fresh THEN nextId ELSE d["_id"]
           call == [Begin(op) EXCEPT !.arg = Some(v)]
       IN  /\ ncalls' = ncalls + 1
           /\ nextId' = IF fresh THEN nextId + 1 ELSE nextId
           /\ IF Present(db[CollectionName(c)], id)
              THEN /\ last' = Return(p, [call EXCEPT !.trace = <<"insert_one/err">>],
                                     Err(MongoError))
                   /\ UNCHANGED <<db, req, intf, gone, expect, raced, acked>>
              ELSE /\ db' = [db EXCEPT ![CollectionName(c)] = insert_one(@, ("_id" :> id) @@ d)]
                   /\ gone' = [gone EXCEPT ![c] = @ \ {id}]
                   /\ req' = [req EXCEPT ![p] =
                        [call EXCEPT !.pc = "refetch", !.id = Some(id),
                                     !.trace = <<"insert_one/ok">>]]
                   /\ intf' = Interfere(p, c, id)
                   /\ last' = NoCall
                   /\ IF c = Lists THEN Rewritten(p, id, v.items, TRUE)
                      ELSE UNCHANGED <<expect, raced, acked>>
    /\ UNCHANGED <<known, workload, deleted>>

\* self.get_document_by_id(&id, collection).await: the last step of
\* add_document and of replace_document_by_id
Refetch(p) ==
    /\ req[p].pc = "refetch"
    /\ LET c == req[p].coll
           id == Unwrap(req[p].id)
           found == find_one(db[CollectionName(c)], "_id", id)
           res == get_document_by_id(db[CollectionName(c)], id, c)
           call == [req[p] EXCEPT !.pc = "ready",
                       !.trace = Append(@, IF found = None THEN "find_one/none"
                                            ELSE "find_one/some")]
       IN  /\ last' = Return(p, call, res)
           /\ known' = IF found = None THEN known ELSE known \cup {id}
           /\ acked' = IF /\ req[p].op = "add_list_item"
                          /\ req[p].trace[2] = "replace_one/1"
                          /\ res.tag = "Ok" /\ res.val # None
                       THEN [acked EXCEPT ![id] = @ \cup { Unwrap(req[p].arg) }]
                       ELSE acked
    /\ req' = [req EXCEPT ![p] = Idle]
    /\ intf' = [intf EXCEPT ![p] = {}]
    /\ UNCHANGED <<db, nextId, ncalls, workload, deleted, gone, expect, raced>>

(***************************************************************************)
(* Repo::get_document_by_id and Repo::delete_document_by_id                *)
(***************************************************************************)
GetDocumentById(p, op, c, id) ==
    /\ Ready(p)
    /\ workload = c
    /\ LET found == find_one(db[CollectionName(c)], "_id", id)
           call == [Begin(op) EXCEPT !.id = Some(id),
                       !.prev = IF /\ last.op \in {"add_list", "add_store"}
                                   /\ last.coll = c /\ last.id = Some(id)
                                   /\ last.res.tag = "Ok"
                                THEN last.res.val ELSE None,
                       !.trace = << IF found = None THEN "find_one/none"
                                    ELSE "find_one/some" >>]
       IN  last' = Return(p, call, get_document_by_id(db[CollectionName(c)], id, c))
    /\ ncalls' = ncalls + 1
    /\ UNCHANGED <<db, nextId, known, req, workload, intf, deleted, gone, expect, raced, acked>>

DeleteDocumentById(p, op, c, id) ==
    /\ Ready(p)
    /\ workload = c
    /\ LET was == Present(db[CollectionName(c)], id)
           deleted_count == Len(db[CollectionName(c)]) - Len(delete_one(db[CollectionName(c)], id))
           call == [Begin(op) EXCEPT !.id = Some(id),
                       !.trace = << IF was THEN "delete_one/1" ELSE "delete_one/0" >>]
       IN  /\ db' = [db EXCEPT ![CollectionName(c)] = delete_one(@, id)]
           /\ last' = Return(p, call, Ok(deleted_count))
           /\ intf' = IF was THEN Interfere(p, c, id) ELSE intf
           /\ deleted' = IF was THEN [deleted EXCEPT ![c] = @ \cup {id}] ELSE deleted
           /\ gone' = IF was THEN [gone EXCEPT ![c] = @ \cup {id}] ELSE gone
           /\ IF was /\ c = Lists THEN Rewritten(p, id, <<>>, FALSE)
              ELSE UNCHANGED <<expect, raced, acked>>
    /\ ncalls' = ncalls + 1
    /\ UNCHANGED <<nextId, known, req, workload>>

(***************************************************************************)
(* Repo::get_user_by_name and Repo::get_lists_by_user                      *)
(***************************************************************************)
get_user_by_name(p) ==
    /\ Ready(p)
    /\ workload = Users
    /\ \E name \in UserNames :
         LET found == find_one(db[CollectionName(Users)], "name", name)
             call == [Begin("get_user_by_name") EXCEPT !.arg = Some(name),
                         !.trace = << IF found = None THEN "find_one/none"
                                      ELSE "find_one/some" >>]
         IN  /\ last' = Return(p, call, Decode(Users, found))
             /\ known' = IF found = None THEN known
                         ELSE known \cup { Unwrap(found)["_id"] }
    /\ ncalls' = ncalls + 1
    /\ UNCHANGED <<db, nextId, req, workload, intf, deleted, gone, expect, raced, acked>>

\* the map over the cursor as a filter_map: the records that fail to decode
\* are left out
DecodeEach_skips_failures(docs) ==
    LET good == SelectSeq(docs, LAMBDA d : CanDeserialize(Lists, d))
    IN  [i \in 1..Len(good) |-> Ok(from_document(Lists, good[i]))]

\* .map(|doc_result| doc_result.map_err(..).and_then(from_document::<List>))
DecodeEach(docs) ==
    [i \in 1..Len(docs) |->
        IF CanDeserialize(Lists, docs[i])
        THEN Ok(from_document(Lists, docs[i]))
        ELSE Err(BsonDe)]

get_lists_by_user(p) ==
    /\ Ready(p)
    /\ workload = Lists
    /\ \E user_id \in OwnerIds :
         LET docs == find(db[CollectionName(Lists)], "userId", user_id)
             call == [Begin("get_lists_by_user") EXCEPT !.arg = Some(user_id),
                         !.trace = <<"find/ok">>]
         IN  /\ last' = Return(p, call, Ok(DecodeEach(docs)))
             /\ known' = known \cup { docs[i]["_id"] : i \in 1..Len(docs) }
    /\ ncalls' = ncalls + 1
    /\ UNCHANGED <<db, nextId, req, workload, intf, deleted, gone, expect, raced, acked>>

(***************************************************************************)
(* Repo::add_list_item: get_list_by_id, List::add_item, then               *)
(* replace_document_by_id (replace_one and the re-fetch).                  *)
(***************************************************************************)
AddListItemRead(p) ==
    /\ Ready(p)
    /\ workload = Lists
    /\ \E list_id \in ProbeIds, item \in ListItems :
         LET got == get_document_by_id(db[CollectionName(Lists)], list_id, Lists)
             call == [Begin("add_list_item") EXCEPT
                          !.id = Some(list_id), !.arg = Some(item)]
         IN  IF got.tag = "Err"
             THEN /\ last' = Return(p, [call EXCEPT !.trace = <<"find_one/some">>], got)
                  /\ UNCHANGED req
             ELSE IF got.val = None
             THEN /\ last' = Return(p, [call EXCEPT !.trace = <<"find_one/none">>],
                                    Err(ObjectNotFound(list_id, Lists)))
                  /\ UNCHANGED req
             ELSE /\ req' = [req EXCEPT ![p] =
                        [call EXCEPT !.pc = "replace",
                                     !.snap = got.val,
                                     !.list = Some(List_add_item(Unwrap(got.val), item)),
                                     !.trace = <<"find_one/some">>]]
                  /\ last' = NoCall
    /\ ncalls' = ncalls + 1
    /\ UNCHANGED <<db, nextId, known, workload, intf, deleted, gone, expect, raced, acked>>

\* replace_one(doc! { "_id": id }, to_document(list))
AddListItemReplace(p) ==
    /\ req[p].pc = "replace"
    /\ LET id == Unwrap(req[p].id)
           matched == Present(db[CollectionName(Lists)], id)
       IN  /\ db' = [db EXCEPT ![CollectionName(Lists)] =
                        replace_one(@, id, to_document(Lists, Unwrap(req[p].list)))]
           /\ req' = [req EXCEPT ![p].pc = "refetch",
                        ![p].trace = Append(@, IF matched THEN "replace_one/1"
                                                ELSE "replace_one/0")]
           /\ intf' = IF matched THEN Interfere(p, Lists, id) ELSE intf
           /\ last' = NoCall
           /\ IF matched THEN Replaced(p, id, Unwrap(req[p].arg))
              ELSE UNCHANGED <<expect, raced, acked>>
    /\ UNCHANGED <<nextId, known, ncalls, workload, deleted, gone>>

(***************************************************************************)
(* The database is a server that other clients write too.  A document of   *)
(* the lists collection that is not a List (here: one without items, owned *)
(* by a user) is what bson::from_document::<List> fails on; one such       *)
(* document at a time is modelled.  Identifiers are plain values: the      *)
(* callers of Repo may hold this document's.                               *)
(***************************************************************************)
ForeignDocument(user_id) == [name |-> "test_list", userId |-> user_id]

ForeignInsert ==
    /\ workload = Lists
    /\ ncalls < MaxCalls(workload)
    /\ \A i \in 1..Len(db[CollectionName(Lists)]) :
         CanDeserialize(Lists, db[CollectionName(Lists)][i])
    /\ \E user_id \in OwnerIds :
         db' = [db EXCEPT ![CollectionName(Lists)] =
                  insert_one(@, ("_id" :> nextId) @@ ForeignDocument(user_id))]
    /\ nextId' = nextId + 1
    /\ ncalls' = ncalls + 1
    /\ last' = NoCall
    /\ known' = known \cup {nextId}
    /\ UNCHANGED <<req, workload, intf, deleted, gone, expect, raced, acked>>

(***************************************************************************)
(* A store call that fails (.await? on a transport or server error): the   *)
(* operation returns RepoError::MongoError at once.                        *)
(***************************************************************************)
FirstCall(op) ==
    CASE op \in {"add_list", "add_store", "add_user"} -> "insert_one"
      [] op \in {"delete_list_by_id", "delete_store_by_id"} -> "delete_one"
      [] op = "get_lists_by_user" -> "find"
      [] OTHER -> "find_one"

FirstCallFails(p) ==
    /\ Ready(p)
    /\ \E op \in Operations :
         /\ workload = CollectionOf(op)
         /\ last' = Return(p, [Begin(op) EXCEPT !.trace = << FirstCall(op) \o "/err" >>],
                           Err(MongoError))
    /\ ncalls' = ncalls + 1
    /\ UNCHANGED <<db, nextId, known, req, workload, intf, deleted, gone, expect, raced, acked>>

\* a failed replace_one or re-fetch that is issued again
LaterCallFails_retried(p) ==
    /\ req[p].pc \in {"refetch", "replace"}
    /\ req[p].trace[Len(req[p].trace)]
         \notin {"replace_one/err", "find_one/err"}
    /\ req' = [req EXCEPT ![p].trace =
                 Append(@, IF req[p].pc = "replace" THEN "replace_one/err"
                           ELSE "find_one/err")]
    /\ last' = NoCall
    /\ UNCHANGED <<db, nextId, known, ncalls, workload, intf, deleted, gone, expect, raced,
                   acked>>

\* a failed later call after which what the operation wrote is deleted again
LaterCallFails_rolled_back(p) ==
    /\ req[p].pc \in {"refetch", "replace"}
    /\ ncalls < MaxCalls(workload)
    /\ last' = Return(p, [Begin(req[p].op) EXCEPT
                            !.id = req[p].id,
                            !.trace = Append(req[p].trace,
                                             IF req[p].pc = "replace"
                                             THEN "replace_one/err"
                                             ELSE "find_one/err")],
                      Err(MongoError))
    /\ db' = [db EXCEPT ![CollectionName(req[p].coll)] =
                 delete_one(@, Unwrap(req[p].id))]
    /\ req' = [req EXCEPT ![p] = Idle]
    /\ intf' = [intf EXCEPT ![p] = {}]
    /\ ncalls' = ncalls + 1
    /\ UNCHANGED <<nextId, known, workload, deleted, gone, expect, raced, acked>>

LaterCallFails(p) ==
    /\ req[p].pc \in {"refetch", "replace"}
    /\ ncalls < MaxCalls(workload)
    /\ last' = Return(p, [Begin(req[p].op) EXCEPT
                            !.id = req[p].id,
                            !.trace = Append(req[p].trace,
                                             IF req[p].pc = "replace"
                                             THEN "replace_one/err"
                                             ELSE "find_one/err")],
                      Err(MongoError))
    /\ req' = [req EXCEPT ![p] = Idle]
    /\ intf' = [intf EXCEPT ![p] = {}]
    /\ ncalls' = ncalls + 1
    /\ UNCHANGED <<db, nextId, known, workload, deleted, gone, expect, raced, acked>>

(***************************************************************************)
(* The facade: the typed operations of Repo                                *)
(***************************************************************************)
add_list(p) == \E v \in ListValues : AddDocumentInsert(p, "add_list", Lists, v)
get_list_by_id(p) == \E id \in ProbeIds : GetDocumentById(p, "get_list_by_id", Lists, id)
delete_list_by_id(p) ==
    \E id \in ProbeIds : DeleteDocumentById(p, "delete_list_by_id", Lists, id)
add_store(p) == \E v \in StoreValues : AddDocumentInsert(p, "add_store", Stores, v)
get_store_by_id(p) ==
    \E id \in ProbeIds : GetDocumentById(p, "get_store_by_id", Stores, id)
delete_store_by_id(p) ==
    \E id \in ProbeIds : DeleteDocumentById(p, "delete_store_by_id", Stores, id)
add_user(p) == \E v \in UserValues : AddDocumentInsert(p, "add_user", Users, v)

(***************************************************************************)
(* user_handlers.rs: POST /api/users.  The handler builds the user with    *)
(* User::new from the name and the email of the body, calls add_user and   *)
(* answers from what add_user returned.                                    *)
(***************************************************************************)
\* the handler's User (id, name, email) of a persisted user
HandlerUser(u) == [id |-> u._id, name |-> u.name, email |-> u.email]

\* create_user answering 404 when add_user returned no document
create_user_or_not_found(res) ==
    IF res.tag = "Err" THEN [status |-> 500, body |-> None]
    ELSE IF res.val = None THEN [status |-> 404, body |-> None]
    ELSE [status |-> 200, body |-> Some(HandlerUser(Unwrap(res.val)))]

\* create_user, from the result of add_user: map_err(..)?, ok_or_else(..)?,
\* Ok(Json(User::new(..)))
create_user(res) ==
    IF res.tag = "Err" THEN [status |-> 500, body |-> None]
    ELSE IF res.val = None THEN [status |-> 500, body |-> None]
    ELSE [status |-> 200, body |-> Some(HandlerUser(Unwrap(res.val)))]

Next ==
    \/ \E p \in Requests : add_list(p)
    \/ \E p \in Requests : get_list_by_id(p)
    \/ \E p \in Requests : delete_list_by_id(p)
    \/ \E p \in Requests : add_store(p)
    \/ \E p \in Requests : get_store_by_id(p)
    \/ \E p \in Requests : delete_store_by_id(p)
    \/ \E p \in Requests : add_user(p)
    \/ \E p \in Requests : get_user_by_name(p)
    \/ \E p \in Requests : get_lists_by_user(p)
    \/ \E p \in Requests : AddListItemRead(p)
    \/ \E p \in Requests : AddListItemReplace(p)
    \/ \E p \in Requests : Refetch(p)
    \/ \E p \in Requests : FirstCallFails(p)
    \/ \E p \in Requests : LaterCallFails(p)
    \/ ForeignInsert

Spec == Init /\ [][Next]_vars

SpecPopulated == InitPopulated /\ [][Next]_vars

(***************************************************************************)
(* Properties                                                              *)
(***************************************************************************)
AddOps == { "add_list", "add_store", "add_user" }
GetOps == { "get_list_by_id", "get_store_by_id" }
DeleteOps == { "delete_list_by_id", "delete_store_by_id" }

\* the list stored under id (when Present)
StoredList(id) == from_document(Lists, Unwrap(find_one(db[CollectionName(Lists)], "_id", id)))

\* id is the identifier of a stored document that is a List
IsList(id) ==
    /\ Present(db[CollectionName(Lists)], id)
    /\ CanDeserialize(Lists, Unwrap(find_one(db[CollectionName(Lists)], "_id", id)))

\* the value v with the identifier id
Persisted(v, id) == [v EXCEPT !._id = id]

\* C1: the replace of add_list_item overwrites the whole document: right
\* after a matched replace the stored list is the list as this call read it
\* plus its own item, whatever other requests wrote between the read and the
\* replace; and a call whose replace matched and whose re-fetch found the
\* list returns success.  So of two calls that both read before either
\* replaces, both succeed and the list keeps the item of the later replace
\* only.
C1_ReplaceOverwritesWholeList ==
    /\ \A p \in Requests :
         (/\ req[p].op = "add_list_item" /\ req[p].pc = "refetch"
          /\ req[p].trace[2] = "replace_one/1" /\ "late" \notin intf[p])
         => /\ Present(db[CollectionName(Lists)], Unwrap(req[p].id))
            /\ StoredList(Unwrap(req[p].id)).items
                 = Append(Unwrap(req[p].snap).items, Unwrap(req[p].arg))
    /\ (/\ last.op = "add_list_item"
        /\ last.trace = <<"find_one/some", "replace_one/1", "find_one/some">>)
       => last.res.tag = "Ok" /\ last.res.val # None

\* Two add_list_item calls on a list of two items have both returned a list,
\* each for its own item, and the stored list has three items: one
\* acknowledged append is missing.
C1_LostUpdate ==
    \E id \in ObjectIds :
        /\ IsList(id)
        /\ Cardinality(acked[id]) = 2
        /\ Len(StoredList(id).items) = 3
        /\ \A p \in Requests : req[p].pc = "ready"

\* C2: add of a value built without identifier, when no other request writes
\* the new document before the re-fetch, returns Some(d) where d is the value
\* with an identifier that the store assigned (none of the caller's); and a
\* get by that identifier right after returns Some(d) again.
C2_InsertFetchRoundTrip ==
    /\ (/\ last.op \in AddOps /\ last.res.tag = "Ok" /\ last.intf = {}
        /\ Unwrap(last.arg)._id = None)
       => /\ last.id # None
          /\ Unwrap(last.id) \notin CallerIds
          /\ last.res.val = Some(Persisted(Unwrap(last.arg), last.id))
    /\ (last.op \in GetOps /\ last.prev # None)
       => last.res = Ok(last.prev)

\* A list with items (categories and amounts present and absent) was
\* inserted and then fetched by its identifier.
C2_ListFetchedAfterInsert ==
    /\ last.op = "get_list_by_id"
    /\ last.prev # None
    /\ Len(Unwrap(last.prev).items) = 2
    /\ Unwrap(last.prev)._id = last.id
    /\ last.res.tag = "Ok"

\* C3: for add_list_item calls that do not overlap another write of the
\* list, the stored items are the items the list was inserted with followed
\* by the appended items in call order; each call returns the list as it read
\* it with the new item last, and get_list_by_id returns exactly that
\* sequence.
C3_AppendOrder ==
    /\ \A id \in ObjectIds :
         (IsList(id) /\ id \notin raced)
         => StoredList(id).items = expect[id]
    /\ (/\ last.op = "add_list_item" /\ last.res.tag = "Ok" /\ last.intf = {}
        /\ last.trace[2] = "replace_one/1")
       => last.res.val =
            Some([Unwrap(last.snap) EXCEPT
                    !.items = Append(@, Unwrap(last.arg))])
    /\ (/\ last.op = "get_list_by_id" /\ last.res.tag = "Ok"
        /\ last.res.val # None /\ Unwrap(last.id) \notin raced)
       => Unwrap(last.res.val).items = expect[Unwrap(last.id)]

\* A list inserted with two items got a third by add_list_item and was
\* fetched with the three in order.
C3_FetchedAfterAppend ==
    /\ last.op = "get_list_by_id"
    /\ last.res.tag = "Ok"
    /\ last.res.val # None
    /\ Unwrap(last.id) \notin raced
    /\ Len(Unwrap(last.res.val).items) = 3
    /\ Len(expect[Unwrap(last.id)]) = 3

\* the step of an add_list_item whose list is absent when it is fetched
AbsentListStep ==
    /\ last'.op = "add_list_item"
    /\ last'.id # None
    /\ Len(last'.trace) = 1
    /\ ncalls' = ncalls + 1
    /\ ~Present(db[CollectionName(Lists)], Unwrap(last'.id))

\* C4: add_list_item on an identifier that no document of lists has (the
\* store answering the fetch) returns ObjectNotFound(list_id, Lists), leaves
\* every collection as it is and leaves no request in flight that could
\* write.
C4_AbsentListIsObjectNotFound ==
    [][AbsentListStep =>
         /\ last'.res = Err([kind |-> "ObjectNotFound",
                             id |-> Unwrap(last'.id), coll |-> Lists])
         /\ db' = db
         /\ req' = req]_vars

\* add_list_item on an identifier that no list has failed with
\* ObjectNotFound while a list is stored.
C4_ObjectNotFoundReturned ==
    /\ last.op = "add_list_item"
    /\ last.res.tag = "Err"
    /\ last.res.val.kind = "ObjectNotFound"
    /\ ~Present(db[CollectionName(Lists)], last.res.val.id)
    /\ db[CollectionName(Lists)] # <<>>

\* the step of a delete whose store call is answered
DeleteStep ==
    /\ last'.op \in DeleteOps
    /\ last'.id # None
    /\ ncalls' = ncalls + 1

\* C5 (as amended): delete returns 1 when a document with the identifier
\* existed immediately before and 0 otherwise, and the identifier is absent
\* after; a delete of an identifier that was deleted and not inserted again
\* since returns 0.
C5_DeleteCount ==
    [][DeleteStep =>
         LET c == last'.coll
             id == Unwrap(last'.id)
         IN  /\ last'.res = Ok(IF Present(db[CollectionName(c)], id) THEN 1 ELSE 0)
             /\ ~Present(db'[CollectionName(c)], id)
             /\ id \in gone[c] => last'.res = Ok(0)]_vars

\* C5 (as stated): delete returns 1 when the document existed and 0
\* otherwise, and after a delete of an identifier every later delete of it
\* returns 0.
C5_SecondDeleteAlwaysZero ==
    [][DeleteStep =>
         LET c == last'.coll
             id == Unwrap(last'.id)
         IN  /\ last'.res = Ok(IF Present(db[CollectionName(c)], id) THEN 1 ELSE 0)
             /\ id \in deleted[c] => last'.res = Ok(0)]_vars

\* A second delete of a deleted identifier returned 0.
C5_SecondDeleteReturnedZero ==
    /\ last.op \in DeleteOps
    /\ last.res = Ok(0)
    /\ last.id # None
    /\ Unwrap(last.id) \in deleted[last.coll]

\* C6 (as amended): an identifier that was deleted and not inserted again
\* since has no document, and a get by it returns absence; in particular the
\* replace of an add_list_item that read the list before the delete does not
\* bring it back.  Only an insert of a value that carries the identifier
\* does.
C6_DeletedStaysAbsentUntilInserted ==
    /\ \A c \in Collections : \A id \in gone[c] : ~Present(db[CollectionName(c)], id)
    /\ (/\ last.op \in GetOps /\ last.id # None
        /\ Unwrap(last.id) \in gone[last.coll])
       => last.res = Ok(None)

\* C6 (as stated): once an identifier has been deleted it has no document in
\* any later state.
C6_DeletionIsTerminal ==
    \A c \in Collections : \A id \in deleted[c] : ~Present(db[CollectionName(c)], id)

\* An add_list_item read the list, the list was deleted, and the replace has
\* run: the list is still absent.
C6_LateReplaceAfterDelete ==
    \E p \in Requests :
        /\ req[p].op = "add_list_item"
        /\ req[p].pc = "refetch"
        /\ req[p].trace[2] = "replace_one/0"
        /\ Unwrap(req[p].id) \in gone[Lists]
        /\ ~Present(db[CollectionName(Lists)], Unwrap(req[p].id))

\* C7 (as amended): a successful add returns Some(d) with d the value it
\* inserted plus the identifier, when no other request wrote that identifier
\* between the insert and the re-fetch; it never returns a document of
\* another identifier, and it returns absence only when such a write (a
\* delete) fell in between.
C7_AddReturnsOwnDocumentUnlessWritten ==
    (last.op \in AddOps /\ last.res.tag = "Ok")
    => /\ "late" \notin last.intf
          => last.res.val = Some(Persisted(Unwrap(last.arg), last.id))
       /\ last.res.val # None => Unwrap(last.res.val)._id = last.id
       /\ last.res.val = None => "late" \in last.intf

\* C7 (as stated): under every interleaving a successful add returns Some(d)
\* with d the value it inserted plus the identifier.
C7_AddReturnsOwnDocument ==
    (last.op \in AddOps /\ last.res.tag = "Ok")
    => last.res.val = Some(Persisted(Unwrap(last.arg), last.id))

\* add_list returned its own document although, between its insert and its
\* re-fetch, another request listed the user's lists and an add_list_item
\* read the new list.
C7_AddReturnedUnderInterleaving ==
    /\ last.op = "add_list"
    /\ last.res.tag = "Ok"
    /\ last.res.val = Some(Persisted(Unwrap(last.arg), last.id))
    /\ \E q \in Requests :
         /\ req[q].op = "add_list_item"
         /\ req[q].pc = "replace"
         /\ req[q].id = last.id

\* the replace_one step of request p
ReplaceStep(p) == req[p].pc = "replace" /\ req'[p].pc = "refetch"

\* the re-fetch step of request p, the store answering
RefetchStep(p) ==
    /\ req[p].pc = "refetch"
    /\ req'[p].pc = "ready"
    /\ last'.trace[Len(last'.trace)] # "find_one/err"

\* C8: a replace by an identifier that no document has changes no
\* collection and creates no document, and the re-fetch that follows, the
\* identifier still absent, returns Ok(None).
C8_ReplaceOfAbsentIsNoOp ==
    [][\A p \in Requests :
         /\ (ReplaceStep(p) /\ ~Present(db[CollectionName(Lists)], Unwrap(req[p].id)))
            => /\ db' = db
               /\ last' = NoCall
         /\ (/\ RefetchStep(p)
             /\ req[p].op = "add_list_item"
             /\ req[p].trace[2] = "replace_one/0"
             /\ ~Present(db[CollectionName(Lists)], Unwrap(req[p].id)))
            => /\ last'.res = Ok(None)
               /\ db' = db]_vars

\* An add_list_item whose list was deleted between its read and its replace
\* returned Ok(None).
C8_ReplaceOfAbsentReturnedNone ==
    /\ last.op = "add_list_item"
    /\ Len(last.trace) = 3
    /\ last.trace[2] = "replace_one/0"
    /\ last.res = Ok(None)
    /\ ~Present(db[CollectionName(Lists)], Unwrap(last.id))

\* the positions of the stored lists that user u owns
ListsOf(u) == { j \in 1..Len(db[CollectionName(Lists)]) : db[CollectionName(Lists)][j].userId = u }

\* C9: get_lists_by_user(u) returns one Ok entry for each stored list whose
\* userId is u, each such list exactly once and as it is stored, and no list
\* of another user.
C9_ListsOfUserExactly ==
    (last.op = "get_lists_by_user" /\ last.res.tag = "Ok")
    => LET u == Unwrap(last.arg)
           r == last.res.val
       IN  /\ Len(r) = Cardinality(ListsOf(u))
           /\ \A i \in 1..Len(r) :
                r[i].tag = "Ok" => r[i].val.user_id = u
           /\ \A j \in ListsOf(u) :
                CanDeserialize(Lists, db[CollectionName(Lists)][j])
                => Cardinality({ i \in 1..Len(r) :
                       r[i] = Ok(from_document(Lists, db[CollectionName(Lists)][j])) }) = 1

\* get_lists_by_user returned the two lists of a user.
C9_TwoListsOfOneUser ==
    /\ last.op = "get_lists_by_user"
    /\ last.res.tag = "Ok"
    /\ Len(last.res.val) = 2
    /\ Len(db[CollectionName(Lists)]) = 2
    /\ \A i \in 1..2 : last.res.val[i].tag = "Ok"

IsLower(s) == \A i \in 1..Len(s) : s[i] \notin 65..90

ItemsLower(items) ==
    \A k \in 1..Len(items) :
        IsSome(items[k].category) => IsLower(Unwrap(items[k].category))

\* C10: every category of every stored store and every present category of
\* every item of every stored list is lower-case, and so are those of the
\* values that add, get and add_list_item return; inputs that differ only in
\* case give the same category, and lowering a lowered category changes
\* nothing.
C10_CategoriesLowerCase ==
    /\ \A j \in 1..Len(db[CollectionName(Stores)]) :
         \A k \in 1..Len(db[CollectionName(Stores)][j].categories) :
             IsLower(db[CollectionName(Stores)][j].categories[k])
    /\ \A j \in 1..Len(db[CollectionName(Lists)]) :
         CanDeserialize(Lists, db[CollectionName(Lists)][j])
         => ItemsLower(from_document(Lists, db[CollectionName(Lists)][j]).items)
    /\ (/\ last.op \in {"add_store", "get_store_by_id"}
        /\ last.res.tag = "Ok" /\ last.res.val # None)
       => \A k \in 1..Len(Unwrap(last.res.val).categories) :
              IsLower(Unwrap(last.res.val).categories[k])
    /\ (/\ last.op \in {"add_list", "get_list_by_id", "add_list_item"}
        /\ last.res.tag = "Ok" /\ last.res.val # None)
       => ItemsLower(Unwrap(last.res.val).items)
    /\ \A a, b \in RawCategories :
         /\ to_lowercase(to_lowercase(a)) = to_lowercase(a)
         /\ to_lowercase(a) = to_lowercase(b)
            => Store_add_category(Store_new("test_store"), a)
                 = Store_add_category(Store_new("test_store"), b)

\* A store with a category was inserted and fetched, the category in lower
\* case.
C10_StoreCategoryFetched ==
    /\ last.op = "get_store_by_id"
    /\ last.res.tag = "Ok"
    /\ last.res.val # None
    /\ Unwrap(last.res.val).categories = << <<109, 101, 97, 116>> >>

\* the documents of lists whose userId is u, in natural order
MatchedBy(u) ==
    SelectSeq(db[CollectionName(Lists)], LAMBDA d : "userId" \in DOMAIN d /\ d.userId = u)

C12_AbsenceIsAValue ==
    /\ (/\ last.op \in GetOps /\ last.id # None
        /\ ~Present(db[CollectionName(last.coll)], Unwrap(last.id)))
       => last.res = Ok(None)
    /\ (/\ last.op = "get_user_by_name" /\ last.arg # None
        /\ find_one(db[CollectionName(Users)], "name", Unwrap(last.arg)) = None)
       => last.res = Ok(None)
    /\ (last.op \in DeleteOps /\ last.trace = <<"delete_one/0">>)
       => last.res = Ok(0)
    /\ (last.res.tag = "Err" /\ last.res.val.kind = "ObjectNotFound")
       => last.op = "add_list_item" /\ last.trace = <<"find_one/none">>

\* A get by the identifier of a deleted document returned Ok(None).
C12_GetOfDeletedReturnedNone ==
    /\ last.op \in GetOps
    /\ last.id # None
    /\ Unwrap(last.id) \in deleted[last.coll]
    /\ last.res = Ok(None)

\* the store calls each operation makes when none fails, in order
CallPlan(op) ==
    CASE op \in AddOps -> <<"insert_one", "find_one">>
      [] op \in DeleteOps -> <<"delete_one">>
      [] op = "get_lists_by_user" -> <<"find">>
      [] op = "add_list_item" -> <<"find_one", "replace_one", "find_one">>
      [] OTHER -> <<"find_one">>

\* the store call of an entry of a trace
CallOf(entry) ==
    CASE entry \in {"insert_one/ok", "insert_one/err"} -> "insert_one"
      [] entry \in {"find_one/some", "find_one/none", "find_one/err"} -> "find_one"
      [] entry \in {"replace_one/1", "replace_one/0", "replace_one/err"} -> "replace_one"
      [] entry \in {"delete_one/1", "delete_one/0", "delete_one/err"} -> "delete_one"
      [] OTHER -> "find"

FailedCalls ==
    { "insert_one/err", "find_one/err", "replace_one/err", "delete_one/err", "find/err" }

\* the store calls of trace are the first calls of op's plan, each issued
\* once, and none before the last one failed
FollowsPlan(op, trace) ==
    /\ Len(trace) <= Len(CallPlan(op))
    /\ \A k \in 1..Len(trace) : CallOf(trace[k]) = CallPlan(op)[k]
    /\ \A k \in 1..(Len(trace) - 1) : trace[k] \notin FailedCalls

RepoErrors ==
    { NotObjectId, MongoError, BsonSer, BsonDe } \cup
    { ObjectNotFound(id, c) : id \in ObjectIds, c \in Collections }

\* C14: create_user answers 200 exactly when add_user returned a persisted
\* user, with that user's assigned id and the name and the email of the
\* request, and 500 with no body otherwise: for every RepoError and for an
\* add_user that returned no document.  There is no other status.
C14_CreateUserOutcome ==
    /\ \A e \in RepoErrors : create_user(Err(e)) = [status |-> 500, body |-> None]
    /\ create_user(Ok(None)) = [status |-> 500, body |-> None]
    /\ last.op = "add_user"
       => LET resp == create_user(last.res)
          IN  /\ resp.status \in {200, 500}
              /\ resp.status = 200
                 <=> (last.res.tag = "Ok" /\ last.res.val # None)
              /\ resp.status = 500 => resp.body = None
              /\ (resp.status = 200 /\ Unwrap(last.arg)._id = None)
                 => /\ Unwrap(resp.body).name = Unwrap(last.arg).name
                    /\ Unwrap(resp.body).email = Unwrap(last.arg).email
                    /\ Unwrap(resp.body).id = last.id
                    /\ last.id # None

\* add_user of the user "foo" returned the persisted user and create_user
\* answers 200 with it.
C14_UserCreated ==
    /\ last.op = "add_user"
    /\ last.res.tag = "Ok"
    /\ create_user(last.res).status = 200
    /\ Unwrap(create_user(last.res).body).name = "foo"
    /\ Unwrap(create_user(last.res).body).id # None

\* C15: a replace by an identifier that a document of lists has overwrites
\* that document, whole, with the given list, under the same identifier and
\* at the same place, and adds and removes no identifier; the re-fetch, when
\* no other request wrote the identifier after the replace, returns Some of
\* that list, and whatever it returns has the identifier.
C15_ReplaceKeepsIdentifier ==
    [][\A p \in Requests :
         LET id == Unwrap(req[p].id)
             d == Unwrap(req[p].list)
             i == IndexWhere(db[CollectionName(Lists)], "_id", id, 1)
         IN  /\ (ReplaceStep(p) /\ Present(db[CollectionName(Lists)], id))
                => /\ IdsIn(db'[CollectionName(Lists)]) = IdsIn(db[CollectionName(Lists)])
                   /\ Len(db'[CollectionName(Lists)]) = Len(db[CollectionName(Lists)])
                   /\ \A j \in 1..Len(db[CollectionName(Lists)]) :
                        j # i => db'[CollectionName(Lists)][j] = db[CollectionName(Lists)][j]
                   /\ db'[CollectionName(Lists)][i]["_id"] = id
                   /\ IsList(id)'
                   /\ StoredList(id)' = [d EXCEPT !._id = Some(id)]
                   /\ \A c \in Collections \ {Lists} : db'[CollectionName(c)] = db[CollectionName(c)]
             /\ (/\ RefetchStep(p)
                 /\ req[p].op = "add_list_item"
                 /\ req[p].trace[2] = "replace_one/1")
                => /\ (last'.res.tag = "Ok" /\ last'.res.val # None)
                      => Unwrap(last'.res.val)._id = Some(id)
                   /\ "late" \notin intf[p]
                      => last'.res = Ok(Some([d EXCEPT !._id = Some(id)]))
                   /\ db' = db]_vars

\* add_list_item replaced the second of two stored documents and returned
\* the list it wrote; both identifiers are still there.
C15_SecondListReplaced ==
    /\ last.op = "add_list_item"
    /\ Len(last.trace) = 3
    /\ last.trace[2] = "replace_one/1"
    /\ last.res.tag = "Ok"
    /\ last.res.val # None
    /\ Unwrap(last.res.val)._id = last.id
    /\ Len(db[CollectionName(Lists)]) = 2
    /\ db[CollectionName(Lists)][2]["_id"] = Unwrap(last.id)
    /\ Cardinality(IdsIn(db[CollectionName(Lists)])) = 2

\* the insert_one step of an add by request p, the insert accepted
InsertStep(p) ==
    /\ req[p].pc = "ready"
    /\ req'[p].pc = "refetch"
    /\ req'[p].op \in AddOps

\* no two documents of a collection have the same identifier
UniqueIds == \A c \in Collections : Cardinality(IdsIn(db[CollectionName(c)])) = Len(db[CollectionName(c)])

\* the values the constructors and builders give have no identifier
BuiltWithoutId ==
    /\ \A name \in UserNames, email \in UserEmails :
         User_new(name, email)._id = None
    /\ \A name \in StoreNames : Store_new(name)._id = None
    /\ \A name \in ListNames, u \in CallerIds :
         ListBuilder_build(ListBuilder_new(name, u))._id = None

\* C16 (as amended): a built value has no identifier; a successful insert of
\* a value without identifier gives it one that no document of the
\* collection has or had; a value that carries an identifier is inserted
\* under that identifier, which no document of the collection has at that
\* moment (it may be one a deleted document had); in every state no two
\* documents of a collection share an identifier.
C16_IdentifiersUnique ==
    /\ [](UniqueIds /\ BuiltWithoutId)
    /\ [][\A p \in Requests :
            InsertStep(p) =>
              LET c == req'[p].coll
                  id == Unwrap(req'[p].id)
                  v == Unwrap(req'[p].arg)
              IN  /\ id \notin IdsIn(db[CollectionName(c)])
                  /\ IdsIn(db'[CollectionName(c)]) = IdsIn(db[CollectionName(c)]) \cup {id}
                  /\ v._id = None => id \notin deleted[c]
                  /\ v._id # None => v._id = Some(id)]_vars

\* C16 (as stated): every successful insert assigns an identifier that no
\* document of the collection has or had.
C16_IdentifierNeverReused ==
    [][\A p \in Requests :
         InsertStep(p) =>
           Unwrap(req'[p].id) \notin
             (IdsIn(db[CollectionName(req'[p].coll)]) \cup deleted[req'[p].coll])]_vars

\* An add of a fetched value was accepted under the identifier of a document
\* deleted earlier, next to a document whose identifier the insert assigned.
C16_DeletedIdentifierInserted ==
    /\ last.op \in AddOps
    /\ last.res.tag = "Ok"
    /\ Unwrap(last.arg)._id = last.id
    /\ Unwrap(last.id) \in deleted[last.coll]
    /\ Present(db[CollectionName(last.coll)], Unwrap(last.id))
    /\ Len(db[CollectionName(last.coll)]) = 1

\* C17 (as stated): every stored user (each one built by User::new and
\* persisted by add_user) has a non-empty name, and so has every user that
\* add_user or create_user returns.
C17_UserNameNonEmpty ==
    /\ \A i \in 1..Len(db[CollectionName(Users)]) : db[CollectionName(Users)][i].name # ""
    /\ (last.op = "add_user" /\ last.res.tag = "Ok" /\ last.res.val # None)
       => /\ Unwrap(last.res.val).name # ""
          /\ Unwrap(create_user(last.res).body).name # ""

\* C18: a delete by identifier removes from its collection the document
\* with that identifier, if there is one, and nothing else: the other
\* documents of the collection stay as they are and in their order, and the
\* other collections stay as they are, also when they hold a document with
\* the same identifier.
C18_DeleteRemovesOnlyThatDocument ==
    [][DeleteStep =>
         LET n == CollectionName(last'.coll)
             id == Unwrap(last'.id)
         IN  /\ db'[n] = SelectSeq(db[n], LAMBDA d : d["_id"] # id)
             /\ Len(db[n]) - Len(db'[n]) \in {0, 1}
             /\ \A m \in CollectionNames \ {n} : db'[m] = db[m]]_vars

\* A delete removed one of two documents of its collection: the other one
\* is still there and the documents of the other collections are too.
C18_OneOfTwoDeleted ==
    /\ last.op \in DeleteOps
    /\ last.res = Ok(1)
    /\ Len(db[CollectionName(last.coll)]) = 1
    /\ db[CollectionName(last.coll)][1]["_id"] # Unwrap(last.id)
    /\ Unwrap(last.id) \in deleted[last.coll]
    /\ \A m \in CollectionNames \ {CollectionName(last.coll)} : db[m] # <<>>

\* the physical collection of the entity kind of each facade operation
OwnCollection(op) ==
    CASE op \in {"add_list", "get_list_by_id", "delete_list_by_id",
                 "get_lists_by_user", "add_list_item"} -> "lists"
      [] op \in {"add_store", "get_store_by_id", "delete_store_by_id"} -> "stores"
      [] op \in {"add_user", "get_user_by_name"} -> "users"

\* the operations that take a step: the one that returns and the ones whose
\* request moves
StepOps ==
    ({ last'.op } \cup { req'[p].op : p \in { q \in Requests : req'[q] # req[q] } }
                  \cup { req[p].op : p \in { q \in Requests : req'[q] # req[q] } })
    \ { "none" }

\* C19: the collection names are "lists", "stores" and "users", one for
\* each kind, and every step of a facade operation leaves the collections of
\* the other kinds as they are and answers from its own collection alone: a
\* get, a delete or an add_list_item by an identifier that no document of
\* its own collection has finds nothing, whatever the other collections
\* hold under that identifier.
C19_OwnCollectionOnly ==
    /\ [](/\ CollectionName(Lists) = "lists"
          /\ CollectionName(Stores) = "stores"
          /\ CollectionName(Users) = "users"
          /\ DOMAIN db = {"lists", "stores", "users"})
    /\ [][/\ \A op \in StepOps :
               \A n \in {"lists", "stores", "users"} \ {OwnCollection(op)} :
                   db'[n] = db[n]
          /\ (/\ last'.op \in GetOps \cup DeleteOps \cup {"add_list_item"}
              /\ last'.id # None
              /\ Len(last'.trace) = 1
              /\ ncalls' = ncalls + 1
              /\ Unwrap(last'.id) \notin IdsIn(db[OwnCollection(last'.op)]))
             => /\ last'.op \in GetOps => last'.res = Ok(None)
                /\ last'.op \in DeleteOps => last'.res = Ok(0)
                /\ last'.op = "add_list_item"
                   => last'.res = Err([kind |-> "ObjectNotFound",
                                       id |-> Unwrap(last'.id), coll |-> Lists])
                /\ db' = db]_vars

\* get_store_by_id by the identifier that a list and a user have, and no
\* store, returned Ok(None) while a store is stored.
C19_OtherKindsIdentifierNotFound ==
    /\ last.op = "get_store_by_id"
    /\ last.id = Some(1)
    /\ last.res = Ok(None)
    /\ db["stores"] # <<>>
    /\ 1 \in IdsIn(db["lists"]) \cap IdsIn(db["users"])
    /\ 1 \notin IdsIn(db["stores"])

\* the positions of the stored users whose name is n
UsersNamed(n) ==
    { i \in 1..Len(db["users"]) : db["users"][i].name = n }

\* C20: get_user_by_name(n), the store answering, returns Some of a stored
\* user whose name is n when there is one, with the email of that user when
\* it is the only one of that name, and Ok(None) when there is none; after
\* add_user returned a user, get_user_by_name of its name returns a user of
\* that name, the same user when no other has the name.
C20_UserByName ==
    /\ []((last.op = "get_user_by_name" /\ last.arg # None)
          => LET n == Unwrap(last.arg)
             IN  /\ UsersNamed(n) = {} => last.res = Ok(None)
                 /\ UsersNamed(n) # {}
                    => /\ last.res.tag = "Ok"
                       /\ last.res.val # None
                       /\ Unwrap(last.res.val).name = n
                       /\ \E i \in UsersNamed(n) :
                            /\ Unwrap(last.res.val)._id = Some(db["users"][i]["_id"])
                            /\ Unwrap(last.res.val).email = db["users"][i].email
                 /\ (last.res.tag = "Ok" /\ last.res.val # None)
                    => Unwrap(last.res.val).name = n)
    /\ [][(/\ last.op = "add_user"
           /\ last.res.tag = "Ok"
           /\ last.res.val # None
           /\ last'.op = "get_user_by_name"
           /\ last'.arg = Some(Unwrap(last.res.val).name)
           /\ ncalls' = ncalls + 1)
          => /\ last'.res.tag = "Ok"
             /\ last'.res.val # None
             /\ Unwrap(last'.res.val).name = Unwrap(last.res.val).name
             /\ Cardinality(UsersNamed(Unwrap(last.res.val).name)) = 1
                => last'.res = last.res]_vars

\* Two users named "foo" with different emails are stored and
\* get_user_by_name("foo") returned one of them.
C20_OneOfTwoNamesakes ==
    /\ last.op = "get_user_by_name"
    /\ last.arg = Some("foo")
    /\ last.res.tag = "Ok"
    /\ last.res.val # None
    /\ Cardinality(UsersNamed("foo")) = 2
    /\ db["users"][1].email # db["users"][2].email

\* the fetch step of an add_list_item by request p that found its list
FetchStep(p) == req[p].pc = "ready" /\ req'[p].pc = "replace"

\* C21 (as amended): the only step of add_list_item that writes is its
\* replace, and a
\* replace that matched changes the list at list_id alone: the other
\* documents of lists and the collections stores and users stay as they
\* are.  The list written has the identifier, the name and the owning user
\* that the call fetched, and the fetched items followed by the item; when
\* no other request wrote the list since the fetch these are the name and
\* the owning user stored until then, and the items stored until then
\* followed by the item.
C21_AddListItemFrame ==
    [][\A p \in Requests :
         LET id == Unwrap(req[p].id)
             fetched == Unwrap(req[p].snap)
             i == IndexWhere(db["lists"], "_id", id, 1)
         IN  /\ (FetchStep(p) \/ (RefetchStep(p) /\ req[p].op = "add_list_item"))
                => db' = db
             /\ (ReplaceStep(p) /\ i # 0)
                => /\ db'["stores"] = db["stores"]
                   /\ db'["users"] = db["users"]
                   /\ Len(db'["lists"]) = Len(db["lists"])
                   /\ \A j \in 1..Len(db["lists"]) :
                        j # i => db'["lists"][j] = db["lists"][j]
                   /\ db'["lists"][i]["_id"] = id
                   /\ IsList(id)'
                   /\ db'["lists"][i].name = fetched.name
                   /\ db'["lists"][i].userId = fetched.user_id
                   /\ StoredList(id)'.items
                        = Append(fetched.items, Unwrap(req[p].arg))
                   /\ "stale" \notin intf[p]
                      => /\ db'["lists"][i].name = db["lists"][i].name
                         /\ db'["lists"][i].userId = db["lists"][i].userId
                         /\ StoredList(id)'.items
                              = Append(StoredList(id).items, Unwrap(req[p].arg))]_vars

\* C21 (as stated): the write of an add_list_item changes the items of the
\* list at list_id alone: the name, the owning user and the identifier
\* stored there stay as they are, and so do every other list and the
\* collections stores and users.
C21_OnlyItemsChange ==
    [][\A p \in Requests :
         LET id == Unwrap(req[p].id)
             i == IndexWhere(db["lists"], "_id", id, 1)
         IN  (ReplaceStep(p) /\ i # 0)
             => /\ db'["stores"] = db["stores"]
                /\ db'["users"] = db["users"]
                /\ \A j \in 1..Len(db["lists"]) :
                     j # i => db'["lists"][j] = db["lists"][j]
                /\ db'["lists"][i]["_id"] = db["lists"][i]["_id"]
                /\ db'["lists"][i].name = db["lists"][i].name
                /\ db'["lists"][i].userId = db["lists"][i].userId]_vars

\* add_list_item returned its list, with the owning user it had fetched,
\* after the list was deleted and inserted again for another user between
\* the fetch and the replace.
C21_ReplacedAfterReinsert ==
    /\ last.op = "add_list_item"
    /\ Len(last.trace) = 3
    /\ last.trace[2] = "replace_one/1"
    /\ "stale" \in last.intf
    /\ Unwrap(last.id) \in deleted[Lists]
    /\ last.res.tag = "Ok"
    /\ last.res.val # None
    /\ Unwrap(last.res.val).user_id = Unwrap(last.snap).user_id
    /\ IsList(Unwrap(last.id))
    /\ StoredList(Unwrap(last.id)).user_id = Unwrap(last.snap).user_id
    /\ db["stores"] # <<>>
    /\ db["users"] # <<>>

\* the step in which the add of request p returns an error
AddFailsStep(p) ==
    /\ last'.op \in AddOps
    /\ last'.res.tag = "Err"
    /\ ncalls' = ncalls + 1
    /\ req[p].pc \in {"ready", "refetch"}
    /\ req'[p].pc = "ready"
    /\ (req[p].pc = "refetch" => req[p].op = last'.op /\ req[p].id = last'.id)
    /\ (req[p].pc = "ready" => Ready(p) /\ req' = req)

\* C22: an add that fails at its insert leaves every collection as it is; an
\* add whose insert was accepted and whose re-fetch fails returns the error
\* and ends there, with no further store call: no collection changes in that
\* step, so the document it inserted is still stored as it was written,
\* unless another request deleted or replaced it in between.
C22_NoRollback ==
    [][\A p \in Requests :
         AddFailsStep(p) =>
           /\ db' = db
           /\ req' = [req EXCEPT ![p] = Idle]
           /\ req[p].pc = "ready" => last'.trace = <<"insert_one/err">>
           /\ req[p].pc = "refetch"
              => LET n == CollectionName(req[p].coll)
                     id == Unwrap(req[p].id)
                     written == ("_id" :> id)
                                  @@ to_document(req[p].coll, Unwrap(req[p].arg))
                 IN  /\ last'.trace = <<"insert_one/ok", "find_one/err">>
                     /\ last'.res = Err([kind |-> "MongoError"])
                     /\ "late" \notin intf[p]
                        => \E i \in 1..Len(db'[n]) : db'[n][i] = written]_vars

\* add_store returned MongoError from its re-fetch and the store it inserted
\* is in the collection.
C22_InsertedThenFailed ==
    /\ last.op = "add_store"
    /\ last.res = Err([kind |-> "MongoError"])
    /\ last.trace = <<"insert_one/ok", "find_one/err">>
    /\ last.id # None
    /\ Present(db["stores"], Unwrap(last.id))
    /\ Unwrap(last.id) \notin deleted[Stores]

====
